---- MODULE Spec2Model ----
(***************************************************************************)
(* A model of fswatcher (src/fswatcher.c, src/daemon_utils.c): the watch   *)
(* registry, the recursive installer, the pattern filter, the callback     *)
(* dispatcher and the event loop of main(), together with the part of the  *)
(* operating system the program talks to (a directory tree and one inotify *)
(* instance).                                                              *)
(*                                                                         *)
(* Paths are sequences of names, names are sequences of characters: the    *)
(* C formatting "%s/%s" of a path and a name is Append(path, name).        *)
(* daemon_mode selects where the diagnostics go, which is left out, and    *)
(* whether the signal handlers of daemon_utils.c are installed.            *)
(*                                                                         *)
(* Specifications: Spec (an interactive run), SpecRename (with renames),   *)
(* SpecDispatch and SpecRegister (a client's callbacks), SpecLife (signals,*)
(* failing reads, foreign and truncated records, both modes),              *)
(* SpecShutdown (cleanup called by a client), SpecWatchAll (recursive mode *)
(* under fair scheduling).                                                 *)
(***************************************************************************)
EXTENDS Integers, Sequences, FiniteSets, TLC

\* ------------------------------------------------------------------ bounds
\* The ceilings of the two tables. The program sets MAX_WATCHES to 512
\* (fswatcher.c:28) and MAX_CALLBACKS to 20 (fswatcher.c:26); the model
\* checks the same code with small ceilings so that the full table is reached.
MAX_WATCHES == 4
MAX_CALLBACKS == 3
\* How many file-system operations the environment performs in one run.
MaxFsOps == 3

\* How many callbacks a client registers, and how many records the
\* notification source delivers, in a run of the dispatch specification.
MaxRegs == 2
MaxRawEvents == 2

\* How many signals are delivered, and how many file-system operations and
\* foreign records happen, in a run of the lifecycle specification.
MaxSignals == 2
MaxLifeOps == 2

\* How many times a client calls cleanup() in a run of the shutdown
\* specification.
MaxCleanups == 2

\* --------------------------------------------------------------- constants
IN_CREATE == "IN_CREATE"
IN_MODIFY == "IN_MODIFY"
IN_DELETE == "IN_DELETE"
IN_MOVED_FROM == "IN_MOVED_FROM"
IN_MOVED_TO == "IN_MOVED_TO"
IN_ATTRIB == "IN_ATTRIB"
IN_ISDIR == "IN_ISDIR"
IN_IGNORED == "IN_IGNORED"

\* The kinds add_watch asks the kernel to report.
WatchMask ==
    {IN_CREATE, IN_MODIFY, IN_DELETE, IN_MOVED_FROM, IN_MOVED_TO, IN_ATTRIB}

EXIT_FAILURE == 1
EXIT_SUCCESS == 0

SIGTERM == "SIGTERM"
SIGINT == "SIGINT"
SIGHUP == "SIGHUP"

\* Handles the kernel never issues to this program.
ForeignWds == {0}

NameA == <<"a">>
NameB == <<"b">>
\* The names the environment gives to directories and files, in readdir order.
NameSeq == <<NameA, NameB>>
Names == {NameSeq[k] : k \in 1..Len(NameSeq)}

\* The path given on the command line (watch_path).
Root == <<>>

\* The glob pattern lists the command line may give (argv after the path).
PatternLists == { <<>>, << <<"a", "*">> >> }

\* The limits the kernel may put on this user's watches
\* (fs.inotify.max_user_watches less the watches of other processes): a
\* request for one more watch is rejected with ENOSPC.
UserWatchLimits == {0, 1, 8}

\* The directory trees that may exist when the program starts: path -> inode.
InitTrees ==
    { (Root :> 1),
      (Root :> 1) @@ (<<NameA>> :> 2),
      (Root :> 1) @@ (<<NameA>> :> 2) @@ (<<NameA, NameB>> :> 3) }

VARIABLES
    pc,             \* where main() is
    status,         \* the exit status, once exited
    fd,             \* static int fd
    recursive_mode, \* static int recursive_mode
    patterns,       \* static char **patterns (pattern_count is its length)
    watches,        \* static watch_info watches[MAX_WATCHES]
    watch_count,    \* static int watch_count
    callbacks,      \* static callback_info callbacks[MAX_CALLBACKS]
    callback_count, \* static int callback_count
    buffer,         \* the chunk main() read last, as records
    i,              \* main()'s index into buffer (in records)
    walkStack,      \* nftw's directories still to visit (top first)
    tree,           \* OS: the directory tree, path -> inode
    nextIno,        \* OS: the next fresh inode
    kwd,            \* OS: the inotify instance's watches, inode -> wd
    nextWd,         \* OS: the next fresh watch descriptor
    queue,          \* OS: the events queued on the inotify descriptor
    nEv,            \* OS: how many events were queued so far
    ops,            \* environment: file-system operations so far
    userLimit,      \* OS: how many watches the kernel grants this user
    rmCalls,        \* history: the descriptors passed to inotify_rm_watch
    closes,         \* history: how many times close(fd) was called
    issued,         \* history: the (wd, path) of every successful add_watch,
                    \*          numbered in the order of the calls
    inst,           \* history: the add_watch call of the last step, if any
    evt,            \* history: the event record handled by the last step
    tried,          \* history: nftw's add_watch calls, in order
    calls,          \* history: the handler invocations, in order
    daemon_mode,    \* static int daemon_mode
    pid_file,       \* OS: whether the PID file exists
    cleanups,       \* history: what each invocation of cleanup() did
    signals,        \* history: the signals delivered to the process, in order
    reg,            \* history: the last register_callback call
    readErrs        \* history: how many times read() returned -1

vars == <<pc, status, fd, recursive_mode, patterns, watches, watch_count,
          callbacks, callback_count, buffer, i, walkStack, tree, nextIno, kwd,
          nextWd, queue, nEv, userLimit, ops, rmCalls, closes, issued, inst,
          evt, tried, calls, daemon_mode, pid_file, cleanups, signals, reg,
          readErrs>>

progVars == <<fd, recursive_mode, patterns, watches, watch_count, callbacks,
              callback_count, buffer, i, walkStack>>
osVars == <<tree, nextIno, kwd, nextWd, queue, nEv, userLimit>>
sigVars == <<daemon_mode, pid_file, signals, readErrs>>

\* --------------------------------------------------------------- helpers
NoEntry == [wd |-> 0, path |-> Root]
NoCallback == [mask |-> {}, haspat |-> FALSE, pattern |-> <<>>, callback |-> "none"]
NoInst == [called |-> FALSE, path |-> Root, ret |-> 0, asked |-> FALSE,
           accepted |-> FALSE]
NoEvt == [valid |-> FALSE]
NoReg == [called |-> FALSE]

Parent(p) == SubSeq(p, 1, Len(p) - 1)
Last(p) == p[Len(p)]
IsPrefix(p, q) == Len(p) <= Len(q) /\ SubSeq(q, 1, Len(p)) = p

\* The sub-directories of p in tree t, in readdir order.
ChildSeq(t, p) ==
    SelectSeq([k \in 1..Len(NameSeq) |-> Append(p, NameSeq[k])],
              LAMBDA q : q \in DOMAIN t)

\* ---------------------------------------------------------- libc: fnmatch
\* fnmatch(pattern, string, 0): '*' matches any run of characters, '?' one
\* character, any other character itself; the whole string must match.
RECURSIVE fnmatch(_, _)
fnmatch(p, s) ==
    IF p = <<>> THEN s = <<>>
    ELSE IF Head(p) = "*"
         THEN fnmatch(Tail(p), s) \/ (s # <<>> /\ fnmatch(p, Tail(s)))
         ELSE /\ s # <<>>
              /\ (Head(p) = "?" \/ Head(p) = Head(s))
              /\ fnmatch(Tail(p), Tail(s))

\* ------------------------------------------------- kernel: inotify_add_watch
\* The kernel's answer to inotify_add_watch(fd, path, mask): -1 (ENOENT)
\* when the path names no directory; the existing descriptor when the
\* directory (the inode) is already watched by this instance; -1 (ENOSPC)
\* when the user's watch limit is reached; a fresh descriptor otherwise.
inotify_add_watch(path) ==
    IF path \notin DOMAIN tree
    THEN [wd |-> -1, kwd |-> kwd, nextWd |-> nextWd]
    ELSE LET ino == tree[path]
         IN  IF ino \in DOMAIN kwd
             THEN [wd |-> kwd[ino], kwd |-> kwd, nextWd |-> nextWd]
             ELSE IF Cardinality(DOMAIN kwd) >= userLimit
             THEN [wd |-> -1, kwd |-> kwd, nextWd |-> nextWd]
             ELSE [wd |-> nextWd, kwd |-> kwd @@ (ino :> nextWd),
                   nextWd |-> nextWd + 1]

\* The indices of the live entries of watches[].
Live == 0..(watch_count - 1)

\* The descriptors the kernel holds a watch for.
LiveWds == {kwd[n] : n \in DOMAIN kwd}

\* ------------------------------------------------------- register_callback
\* register_callback with the full-table test off by one.
register_callback_mut(tbl, cnt, event_mask, haspat, pattern, cb) ==
    IF cnt > MAX_CALLBACKS
    THEN [ret |-> -1, callbacks |-> tbl, callback_count |-> cnt]
    ELSE [ret |-> cnt,
          callbacks |-> [k \in DOMAIN tbl |->
                            IF k = cnt
                            THEN [mask |-> event_mask, haspat |-> haspat,
                                  pattern |-> pattern, callback |-> cb]
                            ELSE tbl[k]],
          callback_count |-> cnt + 1]

\* register_callback(event_mask, pattern, cb) on table tbl holding cnt
\* entries: the return value and the table after the call.
register_callback(tbl, cnt, event_mask, haspat, pattern, cb) ==
    IF cnt >= MAX_CALLBACKS
    THEN [ret |-> -1, callbacks |-> tbl, callback_count |-> cnt]
    ELSE [ret |-> cnt,
          callbacks |-> [tbl EXCEPT ![cnt] =
                            [mask |-> event_mask, haspat |-> haspat,
                             pattern |-> pattern, callback |-> cb]],
          callback_count |-> cnt + 1]

\* A register_callback call as the history keeps it: the table and the count
\* before the call, the entry asked for, and the return value.
RegCall(tbl, cnt, event_mask, haspat, pattern, cb) ==
    [called |-> TRUE, tbl |-> tbl, cnt |-> cnt,
     entry |-> [mask |-> event_mask, haspat |-> haspat, pattern |-> pattern,
                callback |-> cb],
     ret |-> register_callback(tbl, cnt, event_mask, haspat, pattern, cb).ret]

\* --------------------------------------------------------------- add_watch
\* AtCeiling with the comparison off by one.
AtCeiling_mut == watch_count > MAX_WATCHES

\* The ceiling test that opens add_watch.
AtCeiling == watch_count >= MAX_WATCHES

\* What add_watch leaves unchanged when it fails.
AddWatchFailed(asked) ==
    [called |-> TRUE, ret |-> -1, asked |-> asked, watches |-> watches,
     watch_count |-> watch_count, kwd |-> kwd, nextWd |-> nextWd]

\* The store of a granted watch: watches[watch_count] = {wd, path};
\* watch_count++.
StoreWatch(k, path) ==
    [called |-> TRUE, ret |-> k.wd, asked |-> TRUE,
     watches |-> [watches EXCEPT ![watch_count] = [wd |-> k.wd, path |-> path]],
     watch_count |-> watch_count + 1, kwd |-> k.kwd, nextWd |-> k.nextWd]

\* add_watch counting the entry before the OS has granted the watch.
add_watch_mut(path) ==
    IF AtCeiling THEN AddWatchFailed(FALSE)
    ELSE LET k == inotify_add_watch(path)
         IN  IF k.wd < 0
             THEN [AddWatchFailed(TRUE) EXCEPT !.watch_count = watch_count + 1]
             ELSE StoreWatch(k, path)

\* add_watch(path): the return value, whether the OS was asked, and the
\* registry and the kernel's watch table after the call.
add_watch(path) ==
    IF AtCeiling THEN AddWatchFailed(FALSE)
    ELSE LET k == inotify_add_watch(path)
         IN  IF k.wd < 0 THEN AddWatchFailed(TRUE) ELSE StoreWatch(k, path)

\* The result record of a step that does not call add_watch.
NoAddWatch ==
    [called |-> FALSE, ret |-> 0, asked |-> FALSE, watches |-> watches,
     watch_count |-> watch_count, kwd |-> kwd, nextWd |-> nextWd]

\* ---------------------------------------------------------- get_path_by_wd
\* The linear scan of get_path_by_wd from index k; found = FALSE is NULL.
RECURSIVE ScanWatches(_, _)
ScanWatches(k, wd) ==
    IF k >= watch_count THEN [found |-> FALSE, path |-> Root]
    ELSE IF watches[k].wd = wd THEN [found |-> TRUE, path |-> watches[k].path]
    ELSE ScanWatches(k + 1, wd)

\* The scan running over the whole array instead of the live entries.
RECURSIVE ScanArray(_, _)
ScanArray(k, wd) ==
    IF k >= MAX_WATCHES THEN [found |-> FALSE, path |-> Root]
    ELSE IF watches[k].wd = wd THEN [found |-> TRUE, path |-> watches[k].path]
    ELSE ScanArray(k + 1, wd)

get_path_by_wd_mut(wd) == ScanArray(0, wd)

get_path_by_wd(wd) == ScanWatches(0, wd)

\* ------------------------------------------------------------ ftw_callback
\* nftw's type flag for a directory it could read.
FTW_D == "FTW_D"
FTW_NS == "FTW_NS"

\* ftw_callback handing add_watch's failure to nftw.
ftw_callback_mut(path, typeflag, level) ==
    IF typeflag = FTW_D /\ level >= 0
    THEN LET r == add_watch(path)
         IN  [r |-> r, ret |-> IF r.ret < 0 THEN -1 ELSE 0]
    ELSE [r |-> NoAddWatch, ret |-> 0]

\* ftw_callback(path, sb, typeflag, ftwbuf): its add_watch call, if any, and
\* its return value (non-zero stops nftw).
ftw_callback(path, typeflag, level) ==
    IF typeflag = FTW_D /\ level >= 0
    THEN [r |-> add_watch(path), ret |-> 0]
    ELSE [r |-> NoAddWatch, ret |-> 0]

\* --------------------------------------------------------- matches_pattern
pattern_count == Len(patterns)

\* matches_pattern letting every name through.
matches_pattern_mut(filename) == TRUE

matches_pattern(filename) ==
    IF pattern_count = 0 THEN TRUE
    ELSE \E k \in 1..pattern_count : fnmatch(patterns[k], filename)

\* ----------------------------------------------------------- process_event
\* CallbackFires without the pattern test.
CallbackFires_mut(k, event_mask, filename) ==
    callbacks[k].mask \cap event_mask # {}

\* The test of process_event's callback loop for entry k.
CallbackFires(k, event_mask, filename) ==
    /\ callbacks[k].mask \cap event_mask # {}
    /\ (~callbacks[k].haspat \/ fnmatch(callbacks[k].pattern, filename))

\* The callback loop from entry k on: the entries whose handler is called,
\* in the order of the calls.
RECURSIVE CallbackLoop(_, _, _)
CallbackLoop(k, event_mask, filename) ==
    IF k >= callback_count THEN <<>>
    ELSE (IF CallbackFires(k, event_mask, filename) THEN <<k>> ELSE <<>>)
         \o CallbackLoop(k + 1, event_mask, filename)

\* The callback loop walking the table from its last entry down.
RECURSIVE CallbackLoopDown(_, _, _)
CallbackLoopDown(k, event_mask, filename) ==
    IF k < 0 THEN <<>>
    ELSE (IF CallbackFires(k, event_mask, filename) THEN <<k>> ELSE <<>>)
         \o CallbackLoopDown(k - 1, event_mask, filename)

Dispatch_mut(event_mask, filename) ==
    CallbackLoopDown(callback_count - 1, event_mask, filename)

Dispatch(event_mask, filename) == CallbackLoop(0, event_mask, filename)

\* Whether process_event takes its auto-watch branch.
IsNewDirectory(event_mask) ==
    recursive_mode /\ IN_CREATE \in event_mask /\ IN_ISDIR \in event_mask

\* process_event(event_mask, path, filename): the auto-watch install (r),
\* whether "Added watch for new directory" is logged, and the handlers
\* called.
process_event(event_mask, path, filename) ==
    LET auto == IsNewDirectory(event_mask)
        full_path == Append(path, filename)
        r == IF auto THEN add_watch(full_path) ELSE NoAddWatch
    IN  [called |-> TRUE, auto |-> auto, full_path |-> full_path, r |-> r,
         added_msg |-> auto, invoked |-> Dispatch(event_mask, filename)]

\* The result record of a loop iteration that does not call process_event.
NoProcessEvent ==
    [called |-> FALSE, auto |-> FALSE, full_path |-> Root, r |-> NoAddWatch,
     added_msg |-> FALSE, invoked |-> <<>>]

\* ----------------------------------------------------------------- cleanup
\* cleanup(), run by exit() through atexit: one inotify_rm_watch per live
\* entry, then close(fd) when fd >= 0, then free() of every callback's
\* pattern.
RECURSIVE RemoveLoopOn(_, _, _)
RemoveLoopOn(w, cnt, k) ==
    IF k >= cnt THEN <<>> ELSE <<w[k].wd>> \o RemoveLoopOn(w, cnt, k + 1)

RemoveLoop(k) == RemoveLoopOn(watches, watch_count, k)

\* cleanup() on the registry (w, cnt): the step that calls exit() may have
\* changed the registry before the call.
cleanupOn(w, cnt) ==
    [rmCalls |-> rmCalls \o RemoveLoopOn(w, cnt, 0),
     closes |-> IF fd >= 0 THEN closes + 1 ELSE closes,
     freed |-> [k \in 1..callback_count |-> k - 1],
     rm |-> RemoveLoopOn(w, cnt, 0),
     closed |-> fd >= 0]

cleanup == cleanupOn(watches, watch_count)

\* ------------------------------------------------------------ environment
\* The descriptor watching directory p, 0 when p is not watched.
WatchOf(p) ==
    IF p \in DOMAIN tree /\ tree[p] \in DOMAIN kwd THEN kwd[tree[p]] ELSE 0

\* The kernel queues the records evs of watched directories that carry a
\* kind the watch asked for (IN_IGNORED is always reported), each with its
\* arrival number. The kernel writes whole records: trunc marks a record
\* whose declared length extends past the bytes read() returned.
Post(evs) ==
    LET seen == SelectSeq(evs, LAMBDA e :
                    e.wd # 0 /\ e.mask \cap (WatchMask \cup {IN_IGNORED}) # {})
    IN  /\ queue' = queue \o [k \in 1..Len(seen) |->
                                [id |-> nEv + k, wd |-> seen[k].wd,
                                 mask |-> seen[k].mask, name |-> seen[k].name,
                                 trunc |-> FALSE]]
        /\ nEv' = nEv + Len(seen)

\* The file system changes only while the program watches it, and at most
\* MaxFsOps times.
EnvActive == pc \in {"walk", "read", "proc"} /\ ops < MaxFsOps

EnvStep ==
    /\ ops' = ops + 1
    /\ inst' = NoInst
    /\ evt' = NoEvt
    /\ UNCHANGED <<pc, status, progVars, rmCalls, closes, issued, tried, calls,
                   cleanups, sigVars, reg>>

\* mkdir parent/name
Mkdir(parent, name) ==
    /\ EnvActive
    /\ parent \in DOMAIN tree
    /\ Append(parent, name) \notin DOMAIN tree
    /\ tree' = tree @@ (Append(parent, name) :> nextIno)
    /\ nextIno' = nextIno + 1
    /\ Post(<<[wd |-> WatchOf(parent), mask |-> {IN_CREATE, IN_ISDIR},
               name |-> name]>>)
    /\ UNCHANGED <<kwd, nextWd, userLimit>>
    /\ EnvStep

\* rmdir p (an empty directory below the root): the kernel drops p's watch
\* and reports IN_IGNORED on it, with no name.
Rmdir(p) ==
    /\ EnvActive
    /\ p \in DOMAIN tree /\ p # Root
    /\ ChildSeq(tree, p) = <<>>
    /\ tree' = [q \in DOMAIN tree \ {p} |-> tree[q]]
    /\ kwd' = [n \in DOMAIN kwd \ {tree[p]} |-> kwd[n]]
    /\ Post(<<[wd |-> WatchOf(Parent(p)), mask |-> {IN_DELETE, IN_ISDIR},
               name |-> Last(p)],
              [wd |-> WatchOf(p), mask |-> {IN_IGNORED}, name |-> <<>>]>>)
    /\ UNCHANGED <<nextIno, nextWd, userLimit>>
    /\ EnvStep

\* mv src dst, dst a new name in the same directory: the directory and what
\* is below it keep their inodes, and so their watches.
Rename(src, name) ==
    LET dst == Append(Parent(src), name)
    IN  /\ EnvActive
        /\ src \in DOMAIN tree /\ src # Root
        /\ dst \notin DOMAIN tree
        /\ tree' = [q \in {r \in DOMAIN tree : ~IsPrefix(src, r)} \cup
                          {dst \o SubSeq(r, Len(src) + 1, Len(r)) :
                              r \in {r \in DOMAIN tree : IsPrefix(src, r)}} |->
                      IF IsPrefix(dst, q)
                      THEN tree[src \o SubSeq(q, Len(dst) + 1, Len(q))]
                      ELSE tree[q]]
        /\ Post(<<[wd |-> WatchOf(Parent(src)),
                   mask |-> {IN_MOVED_FROM, IN_ISDIR}, name |-> Last(src)],
                  [wd |-> WatchOf(Parent(src)),
                   mask |-> {IN_MOVED_TO, IN_ISDIR}, name |-> name]>>)
        /\ UNCHANGED <<nextIno, kwd, nextWd, userLimit>>
        /\ EnvStep

\* A file named name is created or modified in the watched directory p.
FileKinds == {IN_MODIFY}

FileEvent(p, kind, name) ==
    /\ EnvActive
    /\ WatchOf(p) # 0
    /\ Post(<<[wd |-> WatchOf(p), mask |-> {kind}, name |-> name]>>)
    /\ UNCHANGED <<tree, nextIno, kwd, nextWd, userLimit>>
    /\ EnvStep

\* ------------------------------------------------------------------ main
\* exit(code): cleanup runs through atexit. The kernel's tables are kept as
\* they were when exit() was called.
ExitOn(code, w, cnt) ==
    LET c == cleanupOn(w, cnt)
    IN  /\ pc' = "exited"
        /\ status' = code
        /\ rmCalls' = c.rmCalls
        /\ closes' = c.closes
        /\ cleanups' = Append(cleanups, [rm |-> c.rm, closed |-> c.closed,
                                         freed |-> c.freed])

Exit(code) == ExitOn(code, watches, watch_count)

\* The step's add_watch call r (of path) takes effect.
Installed(r, path) ==
    /\ watches' = r.watches
    /\ watch_count' = r.watch_count
    /\ nextWd' = r.nextWd
    /\ issued' = IF r.called /\ r.ret >= 0
                 THEN issued \cup {[wd |-> r.ret, path |-> path,
                                     n |-> Cardinality(issued) + 1]}
                 ELSE issued
    /\ inst' = [called |-> r.called, path |-> path, ret |-> r.ret,
                asked |-> r.asked,
                accepted |-> inotify_add_watch(path).wd >= 0]

\* The callbacks main() registers.
MainCallbacks ==
    LET r1 == register_callback(callbacks, callback_count, {IN_CREATE},
                                FALSE, <<>>, "on_file_created")
        r2 == register_callback(r1.callbacks, r1.callback_count, {IN_DELETE},
                                FALSE, <<>>, "on_file_deleted")
        r3 == register_callback(r2.callbacks, r2.callback_count, {IN_MODIFY},
                                FALSE, <<>>, "on_file_modified")
    IN  [callbacks |-> r3.callbacks, callback_count |-> r3.callback_count,
         reg |-> RegCall(r2.callbacks, r2.callback_count, {IN_MODIFY}, FALSE,
                         <<>>, "on_file_modified")]

MainStart ==
    /\ pc = "start"
    /\ callbacks' = MainCallbacks.callbacks
    /\ callback_count' = MainCallbacks.callback_count
    /\ reg' = MainCallbacks.reg
    /\ pid_file' = daemon_mode
    /\ pc' = "inotify_init"
    /\ inst' = NoInst /\ evt' = NoEvt
    /\ UNCHANGED <<status, fd, recursive_mode, patterns, watches, watch_count,
                   buffer, i, walkStack, osVars, ops, rmCalls, closes, issued,
                   tried, calls, cleanups, daemon_mode, signals, readErrs>>

\* fd = inotify_init(); a failure ends the process.
InotifyInit ==
    /\ pc = "inotify_init"
    /\ \E ok \in BOOLEAN :
          IF ok
          THEN /\ fd' = 3
               /\ pc' = "add_root"
               /\ UNCHANGED <<status, rmCalls, closes, cleanups>>
          ELSE /\ fd' = fd
               /\ Exit(EXIT_FAILURE)
    /\ inst' = NoInst /\ evt' = NoEvt
    /\ UNCHANGED <<recursive_mode, patterns, watches, watch_count, callbacks,
                   callback_count, buffer, i, walkStack, osVars, ops, issued,
                   tried, calls, sigVars, reg>>

\* initial_wd = add_watch(watch_path); then watch_recursively starts in
\* recursive mode, and the loop otherwise.
AddRoot ==
    /\ pc = "add_root"
    /\    LET r == add_watch(Root)
          IN  /\ Installed(r, Root)
              /\ kwd' = r.kwd
              /\ IF r.ret < 0
                 THEN /\ Exit(EXIT_FAILURE)
                      /\ walkStack' = walkStack
                 ELSE /\ pc' = IF recursive_mode THEN "walk" ELSE "read"
                      /\ walkStack' = IF recursive_mode THEN <<Root>> ELSE <<>>
                      /\ UNCHANGED <<status, rmCalls, closes, cleanups>>
    /\ evt' = NoEvt
    /\ UNCHANGED <<fd, recursive_mode, patterns, callbacks, callback_count,
                   buffer, i, tree, nextIno, queue, nEv, userLimit, ops, tried,
                   calls, sigVars, reg>>

\* One directory of nftw's pre-order walk: the callback, then the
\* directory's sub-directories are pushed. The loop starts when the walk ends.
WalkStep ==
    /\ pc = "walk"
    /\ walkStack # <<>>
    /\    LET p == Head(walkStack)
              typeflag == IF p \in DOMAIN tree THEN FTW_D ELSE FTW_NS
              cb == ftw_callback(p, typeflag, Len(p) - Len(Root))
              rest == IF cb.ret # 0 THEN <<>>
                      ELSE ChildSeq(tree, p) \o Tail(walkStack)
          IN  /\ Installed(cb.r, p)
              /\ kwd' = cb.r.kwd
              /\ walkStack' = rest
              /\ pc' = IF rest = <<>> THEN "read" ELSE "walk"
              /\ tried' = IF cb.r.called
                          THEN Append(tried, [path |-> p, ret |-> cb.r.ret])
                          ELSE tried
    /\ evt' = NoEvt
    /\ UNCHANGED <<status, fd, recursive_mode, patterns, callbacks,
                   callback_count, buffer, i, tree, nextIno, queue, nEv,
                   userLimit, ops, rmCalls, closes, calls, cleanups, sigVars,
                   reg>>

\* How many records the next read() returns: every queued record, or the
\* records up to the one the chunk ends in.
RECURSIVE ChunkLen(_)
ChunkLen(k) ==
    IF k >= Len(queue) \/ queue[k].trunc THEN k ELSE ChunkLen(k + 1)

\* length = read(fd, buffer, BUF_LEN): blocks until a record is queued and
\* takes every queued record (BUF_LEN holds more than the model queues).
Read ==
    /\ pc = "read"
    /\ queue # <<>>
    /\ buffer' = SubSeq(queue, 1, ChunkLen(1))
    /\ queue' = SubSeq(queue, ChunkLen(1) + 1, Len(queue))
    /\ i' = 0
    /\ pc' = "proc"
    /\ inst' = NoInst /\ evt' = NoEvt
    /\ UNCHANGED <<status, fd, recursive_mode, patterns, watches, watch_count,
                   callbacks, callback_count, walkStack, tree, nextIno, kwd,
                   nextWd, nEv, userLimit, ops, rmCalls, closes, issued, tried,
                   calls, cleanups, sigVars, reg>>

\* What one iteration of main()'s inner loop does with record event.
HandleRecord(event) ==
    LET found == get_path_by_wd(event.wd)
        matched == event.name # <<>> /\ found.found
                   /\ matches_pattern(event.name)
    IN  [found |-> found, matched |-> matched,
         pe |-> IF matched
                THEN process_event(event.mask, found.path, event.name)
                ELSE NoProcessEvent]

\* The names event->name may hold for record raw: the record's name, or,
\* when the name lies past the bytes read, whatever the buffer held there.
NamesRead(raw) == IF raw.trunc THEN Names ELSE {raw.name}

\* One iteration of the inner loop: the record at i. Nothing compares
\* i + EVENT_SIZE + event->len with length.
ProcessEvent ==
    /\ pc = "proc"
    /\ i < Len(buffer)
    /\ \E stale \in NamesRead(buffer[i + 1]) :
          LET event == [buffer[i + 1] EXCEPT !.name = stale]
              h == HandleRecord(event)
          IN  /\ Installed(h.pe.r, h.pe.full_path)
              /\ kwd' = h.pe.r.kwd
              /\ evt' = [valid |-> TRUE, id |-> event.id, wd |-> event.wd,
                         mask |-> event.mask, name |-> event.name,
                         found |-> h.found.found, path |-> h.found.path,
                         matched |-> h.matched, reached |-> h.pe.called,
                         auto |-> h.pe.auto, added_msg |-> h.pe.added_msg,
                         invoked |-> h.pe.invoked, trunc |-> event.trunc]
              /\ calls' = calls \o [k \in 1..Len(h.pe.invoked) |->
                                      [ev |-> event.id, cb |-> h.pe.invoked[k]]]
    /\ i' = i + 1
    /\ pc' = IF i + 1 < Len(buffer) THEN "proc" ELSE "read"
    /\ UNCHANGED <<status, fd, recursive_mode, patterns, callbacks,
                   callback_count, buffer, walkStack, tree, nextIno, queue, nEv,
                   userLimit, ops, rmCalls, closes, tried, cleanups, sigVars,
                   reg>>

\* ----------------------------------------------------------- specification
\* The globals' initial values, the command line, and the operating system
\* when the program starts.
InitProgram ==
    /\ pc = "start"
    /\ status = -1
    /\ fd = -1
    /\ recursive_mode \in BOOLEAN
    /\ patterns \in PatternLists
    /\ watches = [k \in 0..(MAX_WATCHES - 1) |-> NoEntry]
    /\ watch_count = 0
    /\ callbacks = [k \in 0..(MAX_CALLBACKS - 1) |-> NoCallback]
    /\ callback_count = 0
    /\ buffer = <<>>
    /\ i = 0
    /\ walkStack = <<>>
    /\ tree \in InitTrees
    /\ nextIno = Cardinality(DOMAIN tree) + 1
    /\ kwd = [n \in {} |-> 0]
    /\ nextWd = 1
    /\ queue = <<>>
    /\ nEv = 0
    /\ userLimit \in UserWatchLimits
    /\ ops = 0
    /\ rmCalls = <<>>
    /\ closes = 0
    /\ issued = {}
    /\ inst = NoInst
    /\ evt = NoEvt
    /\ tried = <<>>
    /\ calls = <<>>
    /\ pid_file = FALSE
    /\ cleanups = <<>>
    /\ signals = <<>>
    /\ reg = NoReg
    /\ readErrs = 0

\* An interactive run (no -d) on a root that has sub-directories.
Init == InitProgram /\ daemon_mode = FALSE /\ DOMAIN tree # {Root}

Env ==
    \/ \E p \in DOMAIN tree, n \in Names : Mkdir(p, n)
    \/ \E p \in DOMAIN tree : Rmdir(p)
    \/ \E k \in FileKinds, n \in Names : FileEvent(Root, k, n)

Next ==
    \/ MainStart
    \/ InotifyInit
    \/ AddRoot
    \/ WalkStep
    \/ Read
    \/ ProcessEvent
    \/ Env

Spec == Init /\ [][Next]_vars

\* A run in which directories are also renamed.
NextRename ==
    \/ Next
    \/ \E s \in DOMAIN tree, n \in Names : Rename(s, n)

SpecRename == Init /\ [][NextRename]_vars

\* ------------------------------------------------- dispatch specification
\* The program with a client's callbacks in place of main()'s example
\* callbacks, on a notification source that may deliver records carrying
\* several kinds.
CallbackMasks == {{IN_CREATE}, {IN_CREATE, IN_MODIFY}}
CallbackPatterns ==
    {[haspat |-> FALSE, pattern |-> <<>>],
     [haspat |-> TRUE, pattern |-> <<"a">>],
     [haspat |-> TRUE, pattern |-> <<"b">>]}
RawMasks == {{IN_CREATE}, {IN_MODIFY}, {IN_CREATE, IN_MODIFY}}

ClientRegister(event_mask, pat) ==
    /\ pc = "start"
    /\ callback_count < MaxRegs
    /\ LET r == register_callback(callbacks, callback_count, event_mask,
                                  pat.haspat, pat.pattern, "handler")
       IN  /\ callbacks' = r.callbacks
           /\ callback_count' = r.callback_count
           /\ reg' = RegCall(callbacks, callback_count, event_mask, pat.haspat,
                             pat.pattern, "handler")
    /\ inst' = NoInst /\ evt' = NoEvt
    /\ UNCHANGED <<pc, status, fd, recursive_mode, patterns, watches,
                   watch_count, buffer, i, walkStack, osVars, ops, rmCalls,
                   closes, issued, tried, calls, cleanups, sigVars>>

ClientStart ==
    /\ pc = "start"
    /\ pc' = "inotify_init"
    /\ inst' = NoInst /\ evt' = NoEvt
    /\ UNCHANGED <<status, progVars, osVars, ops, rmCalls, closes, issued,
                   tried, calls, cleanups, sigVars, reg>>

\* The notification source queues a record for the watched directory p.
RawEvent(p, mask, name) ==
    /\ pc \in {"read", "proc"}
    /\ ops < MaxRawEvents
    /\ WatchOf(p) # 0
    /\ Post(<<[wd |-> WatchOf(p), mask |-> mask, name |-> name]>>)
    /\ UNCHANGED <<tree, nextIno, kwd, nextWd, userLimit>>
    /\ EnvStep

InitDispatch ==
    /\ Init
    /\ ~recursive_mode
    /\ patterns = <<>>
    /\ userLimit = 8
    /\ DOMAIN tree = {Root, <<NameA>>}

NextDispatch ==
    \/ \E m \in CallbackMasks, pat \in CallbackPatterns : ClientRegister(m, pat)
    \/ ClientStart
    \/ InotifyInit
    \/ AddRoot
    \/ Read
    \/ ProcessEvent
    \/ \E p \in DOMAIN tree, m \in RawMasks, n \in Names : RawEvent(p, m, n)

SpecDispatch == InitDispatch /\ [][NextDispatch]_vars

\* ---------------------------------------------------- coverage specification
\* The program in recursive mode, running for ever, on an operating system
\* that accepts every watch request, while directories are created.
InitWatchAll ==
    /\ InitProgram
    /\ daemon_mode = FALSE
    /\ recursive_mode
    /\ userLimit = 8
    /\ Cardinality(DOMAIN tree) <= 2

\* The steps of the program.
Program ==
    \/ MainStart
    \/ InotifyInit
    \/ AddRoot
    \/ WalkStep
    \/ Read
    \/ ProcessEvent

NextWatchAll ==
    \/ Program
    \/ \E p \in DOMAIN tree, n \in Names : Mkdir(p, n)

\* The process is scheduled as long as it can take a step.
SpecWatchAll == InitWatchAll /\ [][NextWatchAll]_vars /\ WF_vars(Program)

\* --------------------------------------------------- lifecycle specification
\* The program with its signals, failing reads and records of foreign
\* handles, in interactive and in daemon mode.

\* The process has not ended.
Alive == pc \notin {"exited", "killed"}

\* setup_daemon_signal_handlers ran: sigaction of signal_handler for
\* SIGTERM, SIGINT and SIGHUP, with sa_flags = 0 (no SA_RESTART).
HandlersInstalled == daemon_mode /\ pc # "start"

\* What signal_handler(sig) does: whether it calls exit(EXIT_SUCCESS), and
\* the PID file after it.
signal_handler(sig) ==
    IF sig \in {SIGTERM, SIGINT}
    THEN [exits |-> TRUE, pid_file |-> FALSE]
    ELSE [exits |-> FALSE, pid_file |-> pid_file]

\* The kernel ends the process (the default action of the three signals):
\* no exit(), so no atexit function runs.
Killed ==
    /\ pc' = "killed"
    /\ UNCHANGED <<status, rmCalls, closes, cleanups, pid_file>>

\* A signal is delivered to the process.
Signal(sig) ==
    /\ Alive
    /\ Len(signals) < MaxSignals
    /\ signals' = Append(signals, sig)
    /\ IF ~HandlersInstalled
       THEN Killed /\ readErrs' = readErrs
       ELSE LET h == signal_handler(sig)
            IN  /\ pid_file' = h.pid_file
                /\ IF h.exits
                   THEN Exit(EXIT_SUCCESS) /\ readErrs' = readErrs
                   ELSE IF pc = "read" /\ queue = <<>>
                   \* the handler returns into the blocked read(), which
                   \* fails with EINTR
                   THEN Exit(EXIT_FAILURE) /\ readErrs' = readErrs + 1
                   ELSE UNCHANGED <<pc, status, rmCalls, closes, cleanups,
                                    readErrs>>
    /\ inst' = NoInst /\ evt' = NoEvt
    /\ UNCHANGED <<progVars, osVars, ops, issued, tried, calls, daemon_mode,
                   reg>>

\* The process ends on termination signal sig: through signal_handler and
\* exit() when the handlers are installed, by the kernel otherwise.
Terminate(sig, w, cnt) ==
    /\ Alive
    /\ Len(signals) < MaxSignals
    /\ signals' = Append(signals, sig)
    /\ readErrs' = readErrs
    /\ IF HandlersInstalled
       THEN /\ pid_file' = signal_handler(sig).pid_file
            /\ ExitOn(EXIT_SUCCESS, w, cnt)
       ELSE Killed

\* The points inside add_watch, past the kernel's grant, where a signal may
\* be delivered: before the entry is written, and before it is counted.
InstallPoints == {"granted", "stored"}

\* A termination signal is delivered while process_event's add_watch, for the
\* record at i, is between inotify_add_watch's return and watch_count++.
SignalInInstall(sig, at) ==
    /\ pc = "proc"
    /\ i < Len(buffer)
    /\ \E stale \in NamesRead(buffer[i + 1]) :
          LET event == [buffer[i + 1] EXCEPT !.name = stale]
              h == HandleRecord(event)
              k == inotify_add_watch(h.pe.full_path)
          IN  /\ h.pe.auto
              /\ ~AtCeiling
              /\ k.wd >= 0
              /\ kwd' = k.kwd
              /\ nextWd' = k.nextWd
              /\ watches' = IF at = "stored"
                            THEN StoreWatch(k, h.pe.full_path).watches
                            ELSE watches
    /\ Terminate(sig, watches', watch_count)
    /\ inst' = NoInst /\ evt' = NoEvt
    /\ UNCHANGED <<fd, recursive_mode, patterns, watch_count, callbacks,
                   callback_count, buffer, i, walkStack, tree, nextIno, queue,
                   nEv, userLimit, ops, issued, tried, calls, daemon_mode, reg>>

\* A termination signal is delivered while process_event's callback loop,
\* for the record at i, has called n of the handlers it would call.
SignalInDispatch(sig, n) ==
    /\ pc = "proc"
    /\ i < Len(buffer)
    /\ \E stale \in NamesRead(buffer[i + 1]) :
          LET event == [buffer[i + 1] EXCEPT !.name = stale]
              h == HandleRecord(event)
          IN  /\ n < Len(h.pe.invoked)
              /\ Installed(h.pe.r, h.pe.full_path)
              /\ kwd' = h.pe.r.kwd
              /\ calls' = calls \o [j \in 1..n |->
                                      [ev |-> event.id, cb |-> h.pe.invoked[j]]]
    /\ Terminate(sig, watches', watch_count')
    /\ evt' = NoEvt
    /\ UNCHANGED <<fd, recursive_mode, patterns, callbacks, callback_count,
                   buffer, i, walkStack, tree, nextIno, queue, nEv, userLimit,
                   ops, tried, daemon_mode, reg>>

\* read() returns -1 for a reason of the kernel's (for instance EINTR after
\* SIGSTOP and SIGCONT): exit(EXIT_FAILURE).
ReadFails ==
    /\ pc = "read"
    /\ readErrs' = readErrs + 1
    /\ Exit(EXIT_FAILURE)
    /\ inst' = NoInst /\ evt' = NoEvt
    /\ UNCHANGED <<progVars, osVars, ops, issued, tried, calls, daemon_mode,
                   pid_file, signals, reg>>

\* daemonize() or write_pid_file() fails: exit(EXIT_FAILURE) after the
\* callbacks were registered.
DaemonFails ==
    /\ pc = "start"
    /\ daemon_mode
    /\ callbacks' = MainCallbacks.callbacks
    /\ callback_count' = MainCallbacks.callback_count
    /\ reg' = MainCallbacks.reg
    /\ pc' = "exited"
    /\ status' = EXIT_FAILURE
    /\ rmCalls' = rmCalls
    /\ closes' = closes
    /\ cleanups' = Append(cleanups, [rm |-> <<>>, closed |-> FALSE,
                                     freed |-> [k \in 1..MainCallbacks.callback_count |-> k - 1]])
    /\ inst' = NoInst /\ evt' = NoEvt
    /\ UNCHANGED <<fd, recursive_mode, patterns, watches, watch_count, buffer,
                   i, walkStack, osVars, ops, issued, tried, calls, sigVars>>

\* The notification source delivers a record, with a name, whose handle the
\* kernel never issued.
ForeignRecord(wd, mask, name) ==
    /\ pc \in {"read", "proc"}
    /\ ops < MaxLifeOps
    /\ queue' = Append(queue, [id |-> nEv + 1, wd |-> wd, mask |-> mask,
                               name |-> name, trunc |-> FALSE])
    /\ nEv' = nEv + 1
    /\ UNCHANGED <<tree, nextIno, kwd, nextWd, userLimit>>
    /\ EnvStep

\* The notification source delivers a chunk that ends inside a record of the
\* watched root: the header is whole and declares a name longer than the
\* bytes that follow it.
TruncatedRecord(mask, name) ==
    /\ pc \in {"read", "proc"}
    /\ ops < MaxLifeOps
    /\ WatchOf(Root) # 0
    /\ queue' = Append(queue, [id |-> nEv + 1, wd |-> WatchOf(Root),
                               mask |-> mask, name |-> name, trunc |-> TRUE])
    /\ nEv' = nEv + 1
    /\ UNCHANGED <<tree, nextIno, kwd, nextWd, userLimit>>
    /\ EnvStep

\* mkdir below the root, within the lifecycle run's budget.
LifeMkdir(name) == ops < MaxLifeOps /\ Mkdir(Root, name)

InitLife ==
    /\ InitProgram
    /\ daemon_mode \in BOOLEAN
    /\ patterns = <<>>
    /\ userLimit \in {0, 8}
    /\ DOMAIN tree = {Root, <<NameA>>}

NextLife ==
    \/ MainStart
    \/ DaemonFails
    \/ InotifyInit
    \/ AddRoot
    \/ WalkStep
    \/ Read
    \/ ProcessEvent
    \/ ReadFails
    \/ \E sig \in {SIGTERM, SIGINT, SIGHUP} : Signal(sig)
    \/ \E n \in Names : LifeMkdir(n)
    \/ \E wd \in ForeignWds, n \in Names : ForeignRecord(wd, {IN_CREATE}, n)
    \/ \E n \in Names : TruncatedRecord({IN_CREATE}, n)
    \/ \E sig \in {SIGTERM, SIGINT}, at \in InstallPoints :
          SignalInInstall(sig, at)
    \/ \E sig \in {SIGTERM, SIGINT}, n \in 0..(MAX_CALLBACKS - 1) :
          SignalInDispatch(sig, n)

SpecLife == InitLife /\ [][NextLife]_vars

\* ---------------------------------------------------- shutdown specification
\* A client that registers its callbacks, lets the program install its
\* watches, and calls cleanup() itself, more than once.
CleanupCall ==
    /\ pc \in {"inotify_init", "add_root", "read", "cleaned"}
    /\ Len(cleanups) < MaxCleanups
    /\ pc' = "cleaned"
    /\ rmCalls' = cleanup.rmCalls
    /\ closes' = cleanup.closes
    /\ cleanups' = Append(cleanups, [rm |-> cleanup.rm, closed |-> cleanup.closed,
                                     freed |-> cleanup.freed])
    \* the kernel drops the watches that are removed, and the instance with
    \* its queue when the descriptor is closed
    /\ kwd' = IF fd >= 0 THEN [n \in {} |-> 0]
              ELSE [n \in {m \in DOMAIN kwd :
                               \A k \in Live : watches[k].wd # kwd[m]} |-> kwd[n]]
    /\ queue' = IF fd >= 0 THEN <<>> ELSE queue
    /\ inst' = NoInst /\ evt' = NoEvt
    /\ UNCHANGED <<status, progVars, tree, nextIno, nextWd, nEv, userLimit,
                   ops, issued, tried, calls, sigVars, reg>>

NextShutdown ==
    \/ \E m \in CallbackMasks, pat \in CallbackPatterns : ClientRegister(m, pat)
    \/ ClientStart
    \/ InotifyInit
    \/ AddRoot
    \/ CleanupCall

SpecShutdown == InitDispatch /\ [][NextShutdown]_vars

\* ------------------------------------------------ registration specification
\* A client of the callback table: register_callback is called any number of
\* times before the program starts.
RegisterCallback(event_mask, pat) ==
    /\ pc = "start"
    /\ LET r == register_callback(callbacks, callback_count, event_mask,
                                  pat.haspat, pat.pattern, "handler")
       IN  /\ callbacks' = r.callbacks
           /\ callback_count' = r.callback_count
           /\ reg' = RegCall(callbacks, callback_count, event_mask, pat.haspat,
                             pat.pattern, "handler")
    /\ inst' = NoInst /\ evt' = NoEvt
    /\ UNCHANGED <<pc, status, fd, recursive_mode, patterns, watches,
                   watch_count, buffer, i, walkStack, osVars, ops, rmCalls,
                   closes, issued, tried, calls, cleanups, sigVars>>

NextRegister ==
    \E m \in CallbackMasks, pat \in CallbackPatterns : RegisterCallback(m, pat)

SpecRegister == InitDispatch /\ [][NextRegister]_vars

\* ------------------------------------------------------------------ claims

\* The entries whose handler process_event must call for mask and name.
Matching(mask, name) ==
    {k \in 0..(callback_count - 1) :
        /\ callbacks[k].mask \cap mask # {}
        /\ (callbacks[k].haspat => fnmatch(callbacks[k].pattern, name))}

\* The walk of the startup sequence has ended and the tree is still the one
\* the program started on.
WalkEndedOnStartTree == recursive_mode /\ pc = "read" /\ ops = 0

\* C1: in every reachable state the number of live watch entries is between
\* 0 and MAX_WATCHES.
C1_CountWithinCeiling == watch_count >= 0 /\ watch_count <= MAX_WATCHES

\* An install was attempted with the table full, and refused.
C1_Witness ==
    inst.called /\ inst.ret = -1 /\ ~inst.asked /\ watch_count = MAX_WATCHES

\* C2: an add_watch call at the ceiling fails without asking the OS; a call
\* the OS rejects fails; a failed call leaves every entry, the count and the
\* kernel's watches as they were; a call below the ceiling that the OS
\* accepts succeeds, adds one entry and keeps the earlier ones.
C2_FailedInstallChangesNothing ==
    [][inst'.called =>
         /\ (watch_count >= MAX_WATCHES => inst'.ret = -1 /\ ~inst'.asked)
         /\ (watch_count < MAX_WATCHES /\ ~inst'.accepted => inst'.ret = -1)
         /\ (inst'.ret < 0 =>
                watches' = watches /\ watch_count' = watch_count /\ kwd' = kwd)
         /\ (watch_count < MAX_WATCHES /\ inst'.accepted =>
                /\ inst'.ret >= 0
                /\ watch_count' = watch_count + 1
                /\ watches'[watch_count] = [wd |-> inst'.ret, path |-> inst'.path]
                /\ \A k \in Live : watches'[k] = watches[k])]_vars

\* The OS rejected an install below the ceiling, with entries in the table.
C2_Witness ==
    inst.called /\ inst.ret = -1 /\ inst.asked /\ watch_count > 0
    /\ watch_count < MAX_WATCHES

\* C3: for every successful install(path) that returned h, resolve(h) is path
\* as long as the kernel holds the watch h; resolve of a handle that was
\* never issued is absent.
C3_ResolveReturnsInstalledPath ==
    /\ \A e \in issued :
          e.wd \in LiveWds =>
             get_path_by_wd(e.wd) = [found |-> TRUE, path |-> e.path]
    /\ \A wd \in 0..(nextWd + 1) :
          wd \notin {e.wd : e \in issued} => ~get_path_by_wd(wd).found

\* C4: no two live watch entries hold the same handle.
C4_HandlesUnique ==
    \A j \in Live, k \in Live : j # k => watches[j].wd # watches[k].wd

\* C5: the traversal installs every directory below the root and not the
\* root: with no failed install, the startup sequence over a tree of B
\* directories ends with B live entries.
C5_WalkSkipsRoot ==
    WalkEndedOnStartTree /\ (\A k \in 1..Len(tried) : tried[k].ret >= 0) =>
        /\ \A k \in 1..Len(tried) : tried[k].path # Root
        /\ watch_count = Cardinality(DOMAIN tree)

\* C6: a failed install does not stop the traversal (every directory below
\* the root is attempted) and a failed auto-watch install stops neither the
\* dispatch of its event to the matching handlers nor the loop.
C6_FailureIsContained ==
    /\ WalkEndedOnStartTree =>
          \A p \in DOMAIN tree \ {Root} :
              \E k \in 1..Len(tried) : tried[k].path = p
    /\ evt.valid /\ inst.called /\ inst.ret < 0 =>
          /\ {evt.invoked[k] : k \in 1..Len(evt.invoked)} =
                Matching(evt.mask, evt.name)
          /\ pc \in {"proc", "read"}

\* An install of the traversal failed and a later directory was attempted;
\* later the auto-watch install of an event failed and a handler ran for
\* that event.
C6_Witness ==
    /\ \E j \in 1..Len(tried), k \in 1..Len(tried) : j < k /\ tried[j].ret < 0
    /\ evt.valid /\ inst.called /\ inst.ret < 0 /\ evt.invoked # <<>>

\* C7: in recursive mode every directory-creation record with a name and a
\* resolvable handle causes an install attempt for parentPath/name.
C7_AutoWatchIgnoresPatterns ==
    /\ evt.valid /\ recursive_mode /\ evt.found /\ evt.name # <<>>
    /\ IN_CREATE \in evt.mask /\ IN_ISDIR \in evt.mask
    => inst.called /\ inst.path = Append(evt.path, evt.name)

\* C8: no handler is called for a record whose name matches none of the
\* global patterns, and with no global pattern every record with a name and
\* a resolvable handle reaches process_event.
C8_PatternFilterGatesDispatch ==
    evt.valid =>
        /\ (pattern_count > 0
            /\ (\A k \in 1..pattern_count : ~fnmatch(patterns[k], evt.name))
            => evt.invoked = <<>> /\ ~evt.reached)
        /\ (pattern_count = 0 /\ evt.found /\ evt.name # <<>> => evt.reached)

\* A record that a callback's mask matches was filtered out by the patterns.
C8_Witness ==
    /\ evt.valid /\ evt.found /\ evt.name # <<>> /\ pattern_count > 0
    /\ \A k \in 1..pattern_count : ~fnmatch(patterns[k], evt.name)
    /\ Matching(evt.mask, evt.name) # {}
    /\ evt.invoked = <<>>

\* How many times entry k's handler was called for the record of the last
\* step.
Invocations(k) ==
    Cardinality({j \in 1..Len(evt.invoked) : evt.invoked[j] = k})

\* C9: for one dispatched record, the handler of entry k is called exactly
\* once if the record's mask shares a kind with the entry's mask and the
\* entry's pattern is absent or matches the name, and not at all otherwise.
C9_EachMatchingEntryOnce ==
    evt.valid /\ evt.reached =>
        \A k \in 0..(callback_count - 1) :
            Invocations(k) = IF /\ callbacks[k].mask \cap evt.mask # {}
                                /\ (~callbacks[k].haspat
                                    \/ fnmatch(callbacks[k].pattern, evt.name))
                             THEN 1 ELSE 0

\* Two entries with overlapping masks and different patterns, a record of
\* several kinds that both masks match and one pattern matches: one call.
C9_Witness ==
    /\ evt.valid /\ evt.reached /\ callback_count = 2
    /\ Cardinality(evt.mask) = 2
    /\ callbacks[0].mask \cap callbacks[1].mask # {}
    /\ callbacks[0].mask \cap evt.mask # {}
    /\ callbacks[1].mask \cap evt.mask # {}
    /\ callbacks[0].haspat /\ callbacks[1].haspat
    /\ fnmatch(callbacks[0].pattern, evt.name)
    /\ ~fnmatch(callbacks[1].pattern, evt.name)
    /\ Len(evt.invoked) = 1

\* C10: the handler calls are ordered by (arrival number of the record,
\* index of the entry).
C10_CallsInArrivalThenRegistrationOrder ==
    \A j \in 1..Len(calls), k \in 1..Len(calls) :
        j < k => \/ calls[j].ev < calls[k].ev
                 \/ (calls[j].ev = calls[k].ev /\ calls[j].cb < calls[k].cb)

\* Two records of one chunk were dispatched, one of them to two handlers.
C10_Witness ==
    /\ Len(buffer) = 2
    /\ \E j \in 1..Len(calls), k \in 1..Len(calls) :
          /\ calls[j].ev = buffer[1].id /\ calls[k].ev = buffer[2].id
    /\ \E j \in 1..Len(calls), k \in 1..Len(calls) :
          /\ calls[j].ev = calls[k].ev /\ calls[j].cb # calls[k].cb

\* C11: register_callback returns -1 exactly when MAX_CALLBACKS entries are
\* registered, and then leaves the table and the count as they were;
\* otherwise it writes the entry after the last one, keeps the earlier
\* entries and returns the count before the call; the count stays between 0
\* and MAX_CALLBACKS.
C11_RegisterFailsExactlyWhenFull ==
    /\ callback_count >= 0 /\ callback_count <= MAX_CALLBACKS
    /\ reg.called =>
          /\ (reg.ret = -1) = (reg.cnt >= MAX_CALLBACKS)
          /\ (reg.ret = -1 =>
                 callbacks = reg.tbl /\ callback_count = reg.cnt)
          /\ (reg.ret # -1 =>
                 /\ reg.ret = reg.cnt
                 /\ callback_count = reg.cnt + 1
                 /\ callbacks[reg.cnt] = reg.entry
                 /\ \A k \in 0..(reg.cnt - 1) : callbacks[k] = reg.tbl[k])

\* A registration was refused on a full table that earlier calls had filled.
C11_Witness ==
    /\ reg.called /\ reg.ret = -1
    /\ reg.cnt = MAX_CALLBACKS /\ callback_count = MAX_CALLBACKS
    /\ reg.entry # callbacks[MAX_CALLBACKS - 1]

\* No live entry of the registry holds handle wd.
Unresolvable(wd) == \A k \in Live : watches[k].wd # wd

\* C12: the loop iteration for a record with a name whose handle no registry
\* entry holds calls no handler and no add_watch, leaves the registry as it
\* was, and moves on to the next record.
C12_UnknownHandleIsDropped ==
    [][evt'.valid /\ evt'.name # <<>> /\ Unresolvable(evt'.wd) =>
         /\ calls' = calls
         /\ evt'.invoked = <<>> /\ ~evt'.reached
         /\ ~inst'.called
         /\ watches' = watches /\ watch_count' = watch_count /\ kwd' = kwd
         /\ i' = i + 1
         /\ pc' \in {"proc", "read"}]_vars

\* A record of a foreign handle was dropped and the record that follows it in
\* the chunk was dispatched to a handler.
C12_Witness ==
    /\ pc \in {"proc", "read"} /\ i >= 2 /\ i <= Len(buffer)
    /\ buffer[i - 1].wd \in ForeignWds /\ buffer[i - 1].name # <<>>
    /\ evt.valid /\ evt.id = buffer[i].id /\ evt.found /\ evt.invoked # <<>>
    /\ \A k \in 1..Len(calls) : calls[k].ev # buffer[i - 1].id

\* C13: after N successful installs, the first invocation of cleanup calls
\* inotify_rm_watch N times, once for the handle of each install, and leaves
\* the registry with no live entry, so that get_path_by_wd finds no handle.
C13_CleanupEmptiesRegistry ==
    Len(cleanups) >= 1 =>
        /\ Len(cleanups[1].rm) = Cardinality(issued)
        /\ \A e \in issued : cleanups[1].rm[e.n] = e.wd
        /\ watch_count = 0
        /\ \A wd \in 0..nextWd : ~get_path_by_wd(wd).found

\* The entries whose pattern string invocation c of cleanup passed to free().
FreedStrings(c) ==
    {c.freed[k] : k \in 1..Len(c.freed)} \cap
    {k \in 0..(callback_count - 1) : callbacks[k].haspat}

\* C14: a second invocation of cleanup calls inotify_rm_watch for no entry,
\* does not close the descriptor, and frees no pattern string that the first
\* invocation freed.
C14_SecondCleanupIsNoOp ==
    Len(cleanups) >= 2 =>
        /\ cleanups[2].rm = <<>>
        /\ ~cleanups[2].closed
        /\ FreedStrings(cleanups[2]) \cap FreedStrings(cleanups[1]) = {}

\* The signal that ended the process, "none" when no signal did.
LastSignal == IF signals = <<>> THEN "none" ELSE signals[Len(signals)]

\* C15: once watches exist, the process does not end without cleanup having
\* run: after a fatal read error and after SIGTERM or SIGINT, in daemon mode
\* and in interactive mode.
C15_CleanupOnEveryExitPath ==
    ~Alive /\ watch_count > 0 => Len(cleanups) >= 1

\* C16: SIGHUP delivered while the loop is blocked in read() (nothing is
\* queued) is only logged: the process stays in the loop, blocked in the
\* same read, with no exit status and no cleanup.
C16_ReloadSignalDoesNotTerminate ==
    [][pc = "read" /\ queue = <<>> /\ signals' = Append(signals, SIGHUP) =>
         /\ pc' = "read"
         /\ status' = status
         /\ cleanups' = cleanups
         /\ readErrs' = readErrs]_vars

\* C17: the loop runs only with the descriptor open and the root's entry in
\* the registry; a process that exits with no live entry, not by a signal,
\* exits with a non-zero status and has read and dispatched nothing; a
\* process ended by SIGTERM or SIGINT has exit status 0.
C17_LoopOnlyAfterSetup ==
    /\ pc \in {"walk", "read", "proc"} =>
          fd >= 0 /\ watch_count >= 1 /\ watches[0].path = Root
    /\ pc = "exited" /\ watch_count = 0 /\ signals = <<>> =>
          status # 0 /\ buffer = <<>> /\ calls = <<>>
    /\ ~Alive /\ LastSignal \in {SIGTERM, SIGINT} =>
          pc = "exited" /\ status = 0

\* C18: a read() that fails ends the process with a non-zero status, and so
\* does a chunk that ends inside a record: no handler is called for the
\* truncated record and the process has exited with a non-zero status.
C18_ReadOrDecodeFailureIsFatal ==
    /\ readErrs > 0 => pc = "exited" /\ status # 0
    /\ evt.valid /\ evt.trunc =>
          evt.invoked = <<>> /\ pc = "exited" /\ status # 0

\* Directory p has a live registry entry that holds its kernel watch.
Watched(p) ==
    /\ WatchOf(p) # 0
    /\ \E k \in Live : watches[k].path = p /\ watches[k].wd = WatchOf(p)

\* C19: in recursive mode, if the table never fills and the OS accepts every
\* request, then from some point on every directory below the root, those
\* there at startup and those created while the program runs, is watched.
C19_EveryDirectoryEventuallyWatched ==
    <>[](pc \in {"read", "proc"} /\ watch_count < MAX_WATCHES =>
            \A p \in DOMAIN tree : Watched(p))

\* C20: when a termination signal ends the process through exit(), wherever
\* in the loop it is delivered, the cleanup it runs calls inotify_rm_watch
\* for every watch the kernel holds for the program, and passes it only
\* handles that add_watch had stored and counted.
C20_CleanupCoversEveryGrantedWatch ==
    pc = "exited" /\ LastSignal \in {SIGTERM, SIGINT} =>
        LET rm == cleanups[Len(cleanups)].rm
        IN  /\ \A n \in DOMAIN kwd : \E k \in 1..Len(rm) : rm[k] = kwd[n]
            /\ \A k \in 1..Len(rm) : \E e \in issued : e.wd = rm[k]

\* C21: "Added watch for new directory: <path>" is logged only when the
\* auto-watch install of <path> succeeded: the same step's add_watch call
\* returned a handle and stored the entry of <path> as the last live entry.
C21_AddedMessageOnlyOnSuccess ==
    evt.valid /\ evt.added_msg =>
        /\ inst.called /\ inst.ret >= 0
        /\ inst.path = Append(evt.path, evt.name)
        /\ watch_count >= 1
        /\ watches[watch_count - 1] = [wd |-> inst.ret, path |-> inst.path]

====
